---- MODULE Spec2Model ----
(***************************************************************************)
(* State-machine model of PythonVersion/snr.py, the main program of the    *)
(* SNR modelling GUI: the handlers that keep the input widgets consistent  *)
(* (s_change, model_change), the plotted-time range editors                *)
(* (limit_change, increment_xlimits, enter_pressed) and the abundance      *)
(* editors (abundance_window, reset_ab, ab_window_close).                  *)
(*                                                                         *)
(* One action is one event handler run to completion (Tk is single         *)
(* threaded).  Numbers of the axis editors are integers; abundances are    *)
(* integers in thousandths (10.94 is 10940).                               *)
(***************************************************************************)
EXTENDS Integers, Sequences, FiniteSets, TLC

VARIABLES
    phase,        \* "start" before line 556 has run, "main" in mainloop
    xval,         \* widgets["xmin"/"xmax"].value_var, as get_value() reads it
    xdata,        \* SNR.data["xmin"], SNR.data["xmax"]
    xprevious,    \* widgets["xmin"/"xmax"].previous
    xincrement,   \* widgets["xmin"/"xmax"].input "increment" option
    range,        \* SNR.data["range"]
    range_var,    \* SNR.widgets["range"].value_var
    xarrows,      \* arrow actions taken so far
    s_var,        \* widgets["s"].value_var
    s_state,      \* widgets["s"].input state
    n_var,        \* widgets["n"].value_var, as get_value() reads it
    n_values,     \* widgets["n"].input values
    visible,      \* whether a parameter's input and label are gridded
    radio,        \* state of each radio button of the model input
    model_var,    \* widgets["model"].value_var
    t_tw_var,     \* widgets["t_tw"].value_var
    t_tw_previous,\* widgets["t_tw"].previous
    t_tw_state,   \* widgets["t_tw"].input state
    group_var,    \* value_var of widgets t_lk, gamma_0, eps and c_tau
    t_lk_previous,\* widgets["t_lk"].previous
    tw_cond,      \* 0.1 * SNR.calc["t_c"] <= SNR.calc["t_pds"], as last computed
    ab_window_open, \* ab_window_open[ab_type]: an editor window, or False
    ab_live,      \* live abundance editor windows of each kind
    ab_entries,   \* element entries of the open editor of each kind
    ab_type_var,  \* "ab_type" dropdown of the open editor of each kind
    abundance,    \* SNR.data["abundance"] (ISM), SNR.data["ej_abundance"] (Ejecta)
    ab_default,   \* ism_ab_type (ISM), ej_ab_type (Ejecta)
    ab_edits,     \* element entries edited so far
    trip,         \* history: an s round trip 0 -> nonzero -> 0 in progress
    tw_trip,      \* history: a model round trip tw -> other -> tw in progress
    last          \* history: the handler that ran last and what it computed

axis_vars == <<xval, xdata, xprevious, xincrement, range, range_var, xarrows>>

rule_vars == <<s_var, s_state, n_var, n_values, visible, radio, model_var,
               t_tw_var, t_tw_previous, t_tw_state, group_var, t_lk_previous,
               tw_cond, trip, tw_trip>>

ab_vars == <<ab_window_open, ab_live, ab_entries, ab_type_var, abundance,
             ab_default, ab_edits>>

vars == <<phase, axis_vars, rule_vars, ab_vars, last>>

(***************************************************************************)
(* Bounds of the model and constants of the program.                       *)
(***************************************************************************)

\* Values a user types into the xmin / xmax editors.
TypedValues == {0, 7, 90, 100, 347, 1000, 99999999}

\* Arrow actions explored in one behaviour.
MaxArrows == 3

\* Spinbox options from_ and to of both editors.
SpinFrom == 0
SpinTo == 100000000

Bounds == {"xmin", "xmax"}
Other(w) == IF w = "xmin" THEN "xmax" ELSE "xmin"

RangePresets == {"Current", "Reverse Shock Lifetime", "ED-ST", "PDS", "MCS"}

(***************************************************************************)
(* The record kept in "last".                                              *)
(***************************************************************************)
\* op: the handler; w: the widget or table it was called for; dir, old, step,
\* new, committed: what increment_xlimits read and computed (for s_change,
\* old is n before the handler); mode: the model variant or abundance type
\* before the handler ran; recompute, replot: calls of SNR.update_output and
\* SNR.graph.display_plot; focus: calls of root.focus() on a window that was
\* already open.  For an edit of an axis bound, mode tells only whether the
\* range mode before it was "Custom" or one of the named presets.
ModeKind(mode) == IF mode = "Custom" THEN "Custom" ELSE "preset"

\* cond: 0.1 * t_c <= t_pds as s_change read it; rep: 1 when the handler ran
\* right after itself with the same discriminant value (and the same cond).
\* read: the inputs as the handler's call of SNR.update_output reads them.
NoRead ==
    [s |-> "", n |-> 0, n_values |-> {}, model |-> "", s_state |-> "",
     t_tw_state |-> "", t_tw |-> "", visible |-> {}]

NoEvent ==
    [op |-> "none", w |-> "none", dir |-> 0, old |-> 0, step |-> 0,
     new |-> 0, committed |-> FALSE, mode |-> "", recompute |-> 0,
     replot |-> 0, focus |-> 0, read |-> NoRead, cond |-> FALSE, rep |-> 0]

(***************************************************************************)
(* increment_xlimits: the step.                                            *)
(***************************************************************************)
\* Line 183: what increment_xlimits requests, whatever the direction and
\* whether or not the edit is stored: a replot, SNR.graph.display_plot.
XlimitsCalls_Update(direction) == [recompute |-> 1, replot |-> 1]

XlimitsCalls(direction) == [recompute |-> 0, replot |-> 1]

\* Lines 480-481: two of the validated inputs other than the bound editors;
\* their callback is SNR.update_output.
OtherEntries == {"t", "e_51"}

\* Lines 117-125: what the Return key in the validated input w calls.
EnterPressedCalls(w) ==
    IF w \notin Bounds THEN [recompute |-> 1, replot |-> 0]
                       ELSE XlimitsCalls(0)

\* Lines 145-147: the stored mode and the selector after an edit of a bound;
\* data_range is SNR.data["range"] and shown is the one of the two assigned.
RangeAfterEdit_Keep(data_range, shown) == shown

RangeAfterEdit(data_range, shown) ==
    IF data_range # "Custom" THEN "Custom" ELSE shown

Max(a, b) == IF a >= b THEN a ELSE b

\* math.floor(math.log10(v)) for an integer v >= 1.
RECURSIVE FloorLog10(_)
FloorLog10(v) == IF v < 10 THEN 0 ELSE 1 + FloorLog10(v \div 10)

\* Lines 149-157: math.log10 raises ValueError for v <= 0.
Increment_NoFloor(old_val, direction) ==
    IF old_val > 0
    THEN LET increment == 10 ^ FloorLog10(old_val)
         IN  IF old_val = increment /\ increment # 10 /\ direction = -1
             THEN increment \div 10
             ELSE increment
    ELSE 10

Increment_NoReduce(old_val, direction) ==
    IF old_val > 0
    THEN Max(10 ^ FloorLog10(old_val), 10)
    ELSE 10

Increment(old_val, direction) ==
    IF old_val > 0
    THEN LET increment == Max(10 ^ FloorLog10(old_val), 10)
         IN  IF old_val = increment /\ increment # 10 /\ direction = -1
             THEN increment \div 10
             ELSE increment
    ELSE 10

(***************************************************************************)
(* increment_xlimits: the new value of an arrow action.                    *)
(***************************************************************************)
\* math.floor(x / m) * m and math.ceil(x / m) * m for integers, m > 0.
FloorTo(x, m) == (x \div m) * m
CeilTo(x, m) == -(((-x) \div m) * m)

\* Line 163: whether the raw value is snapped to a multiple of the step.
Snaps(old_val, direction, raw, increment, maximum) ==
    /\ raw % increment # 0
    /\ ~(old_val = maximum /\ direction = 1)

\* Lines 162-169: the raw value, snapped.
Snapped_Raw(old_val, direction, increment, maximum) ==
    old_val + direction * increment

Snapped(old_val, direction, increment, maximum) ==
    LET raw == old_val + direction * increment
    IN  IF Snaps(old_val, direction, raw, increment, maximum)
        THEN IF direction = 1 THEN FloorTo(raw, increment)
                              ELSE CeilTo(raw, increment)
        ELSE raw

\* Line 170: what the editor shows between the snap and the toolkit's own step.
ShownAfterSnap(old_val, direction, increment, maximum) ==
    LET raw == old_val + direction * increment
    IN  IF Snaps(old_val, direction, raw, increment, maximum)
        THEN Snapped(old_val, direction, increment, maximum) - direction * increment
        ELSE old_val

\* Lines 171-173.
Clamp_None(new_val, maximum) == new_val

Clamp(new_val, maximum) == IF new_val > maximum THEN maximum ELSE new_val

\* Lines 174-175: cur is what the two editors show when the test runs.
CanCommit_NoCollision(old_val, direction, new_val, cur) ==
    ~(old_val = 0 /\ direction = -1)

CanCommit(old_val, direction, new_val, cur) ==
    /\ ~(old_val = 0 /\ direction = -1)
    /\ ~(new_val = cur["xmin"] \/ new_val = cur["xmax"])

\* The toolkit's own step of the spinbox, which runs after the handler
\* (comment at line 160): the shown value moves by the configured increment
\* and stays within from_ .. to.
SpinboxStep(shown, direction, increment) ==
    LET v == shown + direction * increment
    IN  IF v > SpinTo THEN SpinTo ELSE IF v < SpinFrom THEN SpinFrom ELSE v

\* Lines 533 and 535: the validity predicates of the two editors.
XCondition(w, value, cur) == value # cur[Other(w)]

\* InputParam.revert_value of snr_gui: the field shows its previous value.
RevertValue(previous) == previous

\* InputEntry.validate of snr_gui: a value the field's predicate rejects is
\* not applied and the field reverts to its previous value.
Validate(typed, accepted, previous) ==
    IF accepted THEN typed ELSE RevertValue(previous)

Validated(w, typed, cur, prev) ==
    Validate(typed, XCondition(w, typed, cur), prev[w])

(***************************************************************************)
(* s_change, lines 59-95.                                                  *)
(***************************************************************************)
\* Lines 504-506: the radio buttons of the model input.
Models == {"cf", "lk", "tw", "wl"}

\* Lines 485, 77 and 90.
NValuesZero == {0, 2, 4, 6, 7, 8, 9, 10, 12, 14}
NValuesNonzero == {0, 1, 2, 7}

\* Lines 69-72 and 83-86.
SChangeVisible_Toggle(vis, s) ==
    IF s = "0" THEN [vis EXCEPT !["m_w"] = FALSE, !["v_w"] = FALSE]
               ELSE [vis EXCEPT !["m_w"] = ~@, !["v_w"] = ~@]

SChangeVisible(vis, s) ==
    [vis EXCEPT !["m_w"] = (s # "0"), !["v_w"] = (s # "0")]

\* Lines 73-76 and 87-89: cond is 0.1 * t_c <= t_pds when the handler runs.
SChangeRadio_KeepWl(rad, s, cond) ==
    IF s = "0"
    THEN [rad EXCEPT !["lk"] = "normal", !["wl"] = "normal",
                     !["tw"] = IF cond THEN "normal" ELSE @]
    ELSE [rad EXCEPT !["lk"] = "disabled", !["tw"] = "disabled"]

SChangeRadio(rad, s, cond) ==
    IF s = "0"
    THEN [rad EXCEPT !["lk"] = "normal", !["wl"] = "normal",
                     !["tw"] = IF cond THEN "normal" ELSE @]
    ELSE [rad EXCEPT !["lk"] = "disabled", !["tw"] = "disabled",
                     !["wl"] = "disabled"]

\* Lines 77 and 90.
SChangeValues(s) == IF s = "0" THEN NValuesZero ELSE NValuesNonzero

\* Lines 78-80 and 91-93.
SChangeN_KeepOne(n, s) ==
    IF s = "0" THEN n ELSE IF n \notin {0, 1, 2, 7} THEN 0 ELSE n

SChangeN_ResetAny(n, s) ==
    IF s = "0" THEN (IF n = 1 THEN 0 ELSE n) ELSE 0

SChangeN(n, s) ==
    IF s = "0"
    THEN IF n = 1 THEN 0 ELSE n
    ELSE IF n \notin {0, 1, 2, 7} THEN 0 ELSE n

\* snr_gui: setting, validating or reverting the value of a widget from a
\* handler runs no callback, so it requests no recompute of its own.
WidgetSetRecompute == 0

\* Lines 78-80, 91-93 and 94-95: the calls of SNR.update_output made by one
\* s_change(update).
SChangeRecompute_Always(n, s, update) == 1

SChangeRecompute(n, s, update) ==
    (IF SChangeN(n, s) # n THEN WidgetSetRecompute ELSE 0)
    + (IF update THEN 1 ELSE 0)

\* Lines 94-95: SNR.update_output is called after lines 67-93, so it reads
\* the widgets as those lines leave them.
SChangeRead_BeforeReset(rd, vis, n, s) ==
    [rd EXCEPT !.s = s, !.n = n, !.n_values = SChangeValues(s),
               !.visible = {p \in DOMAIN vis : SChangeVisible(vis, s)[p]}]

SChangeRead(rd, vis, n, s) ==
    [rd EXCEPT !.s = s, !.n = SChangeN(n, s), !.n_values = SChangeValues(s),
               !.visible = {p \in DOMAIN vis : SChangeVisible(vis, s)[p]}]

(***************************************************************************)
(* model_change, lines 186-234.                                            *)
(***************************************************************************)
\* Lines 194-208 and 215-231.
ModelChangeVisible_KeepTtw(vis, m) ==
    [vis EXCEPT !["t_lk"] = (m = "lk"), !["gamma_0"] = (m = "lk"),
                !["eps"] = (m = "lk"), !["t_tw"] = (m = "tw" \/ @),
                !["c_tau"] = (m = "wl")]

ModelChangeVisible(vis, m) ==
    [vis EXCEPT !["t_lk"] = (m = "lk"), !["gamma_0"] = (m = "lk"),
                !["eps"] = (m = "lk"), !["t_tw"] = (m = "tw"),
                !["c_tau"] = (m = "wl")]

\* Lines 210-213.
ModelChangeSState_Always(m) == "readonly"

ModelChangeSState_AlsoLk(m) ==
    IF m \in {"cf", "lk"} THEN "readonly" ELSE "disabled"

ModelChangeSState(m) == IF m = "cf" THEN "readonly" ELSE "disabled"

\* Lines 216 and 221.
ModelChangeTtwState(m) == IF m = "tw" THEN "normal" ELSE "disabled"

\* Lines 217 and 222: revert_value() shows the field's previous value again.
ModelChangeTtwVar_Default(m, previous) == IF m = "tw" THEN "4e5" ELSE "N/A"

ModelChangeTtwVar(m, previous) ==
    IF m = "tw" THEN RevertValue(previous) ELSE "N/A"

\* Lines 200, 217, 222 and 233-234: the calls of SNR.update_output made by
\* one model_change(update).
ModelChangeRecompute(m, update) ==
    (IF m = "lk" THEN WidgetSetRecompute ELSE 0)
    + WidgetSetRecompute
    + (IF update THEN 1 ELSE 0)

\* Lines 233-234: SNR.update_output is called after lines 192-231.
ModelChangeRead(rd, vis, m, previous) ==
    [rd EXCEPT !.model = m, !.s_state = ModelChangeSState(m),
               !.t_tw_state = ModelChangeTtwState(m),
               !.t_tw = ModelChangeTtwVar(m, previous),
               !.visible = {p \in DOMAIN vis : ModelChangeVisible(vis, m)[p]}]

\* Lines 507-514: the parameters of the lk group and of the wl group, and the
\* values their inputs are built with.
GroupParams == {"t_lk", "gamma_0", "eps", "c_tau"}
GroupDefault ==
    [p \in GroupParams |->
        CASE p = "t_lk" -> "5000" [] p = "gamma_0" -> "1.667"
          [] p = "eps" -> "0.7" [] p = "c_tau" -> "2"]

\* A value the user gives each of them, one its predicate accepts.
GroupTyped ==
    [p \in GroupParams |->
        CASE p = "t_lk" -> "6000" [] p = "gamma_0" -> "1.4"
          [] p = "eps" -> "0.5" [] p = "c_tau" -> "4"]

\* Lines 192-231: what model_change does to the values of these parameters.
\* It validates t_lk when the variant is lk (line 200), ok being the verdict
\* of the predicate of t_lk, and sets none of them.
ModelChangeValues_Reset(gv, m, ok, previous) ==
    [p \in GroupParams |->
        IF ModelChangeVisible([q \in GroupParams \cup {"t_tw"} |-> TRUE], m)[p]
        THEN gv[p] ELSE GroupDefault[p]]

ModelChangeValues(gv, m, ok, previous) ==
    IF m = "lk" THEN [gv EXCEPT !["t_lk"] = Validate(@, ok, previous)] ELSE gv

\* Values a user types into the t_tw field.
TtwTyped == {"4e5", "5e5"}

NoTrip == [stage |-> 0, n0 |-> 0, wind0 |-> <<FALSE, FALSE>>]
NoTwTrip == [stage |-> "none", held |-> ""]

(***************************************************************************)
(* Abundance editors, lines 17-31, 271-355 and 451-461.                    *)
(***************************************************************************)
Kinds == {"ISM", "Ejecta"}

\* Line 19.
ELEMENT_ORDER == <<"He", "C", "N", "O", "Ne", "Mg", "Si", "S", "Fe">>

\* The elements of ELEMENT_ORDER the model follows: its first NumElements.
NumElements == 2
Elements == {ELEMENT_ORDER[i] : i \in 1..NumElements}

\* Lines 21-31, in thousandths, for the elements of ELEMENT_ORDER.
ABUNDANCE ==
    [t \in {"Solar", "LMC", "CC", "Type Ia"} |->
        CASE t = "Solar" ->
               [He |-> 10930, C |-> 8520, N |-> 7920, O |-> 8830, Ne |-> 8080,
                Mg |-> 7580, Si |-> 7550, S |-> 7330, Fe |-> 7500]
          [] t = "LMC" ->
               [He |-> 10940, C |-> 8040, N |-> 7140, O |-> 8350, Ne |-> 7610,
                Mg |-> 7470, Si |-> 7810, S |-> 6700, Fe |-> 7230]
          [] t = "CC" ->
               [He |-> 11220, C |-> 9250, N |-> 8620, O |-> 9690, Ne |-> 8920,
                Mg |-> 8300, Si |-> 8790, S |-> 8540, Fe |-> 8550]
          [] t = "Type Ia" ->
               [He |-> 11400, C |-> 12600, N |-> 7500, O |-> 12910,
                Ne |-> 11040, Mg |-> 11550, Si |-> 12750, S |-> 12430,
                Fe |-> 13120]]

\* Lines 300-307: the presets the dropdown of each kind offers.
Types(k) == IF k = "ISM" THEN {"LMC", "Solar"} ELSE {"CC", "Type Ia"}

\* "{0:.2f}".format(v) read back as a number: v rounded to hundredths.
Format2f(v) ==
    LET q == v \div 10
        r == v % 10
    IN  IF r > 5 \/ (r = 5 /\ q % 2 = 1) THEN (q + 1) * 10 ELSE q * 10

\* Values a user types into an element entry (8.123).
AbTyped == {8123}

\* Edits of element entries explored in one behaviour.
MaxEdits == 2

\* Line 296: the validity predicate of an element entry, 0 < value < 100.
AbCondition(value) == 0 < value /\ value < 100000

\* Line 279: the test of the single-instance slot.
SlotTaken_Never(slot) == FALSE

SlotTaken(slot) == slot

\* Lines 294-296: the entries of a new editor.
NewEntries(ab_dict) == [e \in Elements |-> Format2f(ab_dict[e])]

\* Lines 297-298: any key pressed in an element entry.
KeyPressed_Keep(ab_type) == ab_type

KeyPressed(ab_type) == "Custom"

\* reset_ab, lines 328-331.
ResetAb_FirstOnly(ab_default_) ==
    [e \in Elements |->
        IF e = ELEMENT_ORDER[1] THEN Format2f(ABUNDANCE[ab_default_][e]) ELSE 0]

ResetAb(ab_default_) == [e \in Elements |-> Format2f(ABUNDANCE[ab_default_][e])]

\* Lines 312-316: what calls ab_window_close.
Triggers == {"submit", "return", "close"}

\* Entries and dropdown of a kind with no editor window.
NoEntries == [e \in Elements |-> 0]

(***************************************************************************)
(* Initial state: the widgets as lines 451-555 construct them.             *)
(***************************************************************************)
Init ==
    /\ phase = "start"
    /\ xval = [w \in Bounds |-> IF w = "xmin" THEN 0 ELSE 900]
    /\ xdata = [w \in Bounds |-> IF w = "xmin" THEN 0 ELSE 900]
    /\ xprevious = [w \in Bounds |-> IF w = "xmin" THEN 0 ELSE 900]
    /\ xincrement = [w \in Bounds |-> IF w = "xmin" THEN 10 ELSE 100]
    /\ range = "Current"
    /\ range_var = "Current"
    /\ xarrows = 0
    /\ s_var = "0"
    /\ s_state = "disabled"
    /\ n_var = 0
    /\ n_values = NValuesZero
    /\ visible = [p \in {"s", "m_w", "v_w", "t_lk", "gamma_0", "eps", "t_tw",
                           "c_tau"} |-> TRUE]
    /\ radio = [v \in Models |-> "normal"]
    /\ model_var = "cf"
    /\ t_tw_var = "4e5"
    /\ t_tw_previous = "4e5"
    /\ group_var = [p \in GroupParams |-> GroupDefault[p]]
    /\ t_lk_previous = GroupDefault["t_lk"]
    /\ t_tw_state = "normal"
    /\ tw_cond = FALSE
    /\ ab_window_open = [k \in Kinds |-> FALSE]
    /\ ab_live = [k \in Kinds |-> 0]
    /\ ab_entries = [k \in Kinds |-> NoEntries]
    /\ ab_type_var = [k \in Kinds |-> ""]
    /\ ab_edits = 0
    /\ ab_default = [k \in Kinds |-> IF k = "ISM" THEN "LMC" ELSE "Type Ia"]
    /\ abundance = [k \in Kinds |-> [e \in Elements |-> ABUNDANCE[ab_default[k]][e]]]
    /\ trip = NoTrip
    /\ tw_trip = NoTwTrip
    /\ last = NoEvent

\* What every handler but the one concerned does to the two histories.
TripsReset ==
    /\ trip' = NoTrip
    /\ tw_trip' = IF tw_trip.stage = "back" THEN NoTwTrip ELSE tw_trip

\* Lines 556-562: update_output(), model_change(False), s_change(False), and
\* t_lk set to round(t_pds), written "t_pds".
Startup ==
    /\ phase = "start"
    /\ phase' = "main"
    /\ \E cond \in BOOLEAN :
          /\ tw_cond' = cond
          /\ radio' = SChangeRadio(radio, s_var, cond)
    /\ visible' = SChangeVisible(ModelChangeVisible(visible, model_var), s_var)
    /\ s_state' = ModelChangeSState(model_var)
    /\ t_tw_state' = ModelChangeTtwState(model_var)
    /\ t_tw_var' = ModelChangeTtwVar(model_var, t_tw_previous)
    /\ n_values' = SChangeValues(s_var)
    /\ n_var' = SChangeN(n_var, s_var)
    /\ last' = [NoEvent EXCEPT !.op = "startup", !.cond = tw_cond',
                   !.recompute = 1 + ModelChangeRecompute(model_var, FALSE)
                                   + SChangeRecompute(n_var, s_var, FALSE)]
    /\ TripsReset
    /\ \E ok \in BOOLEAN :
          group_var' = [ModelChangeValues(group_var, model_var, ok,
                                          t_lk_previous)
                          EXCEPT !["t_lk"] = "t_pds"]
    /\ UNCHANGED <<s_var, model_var, t_tw_previous, t_lk_previous>>
    /\ UNCHANGED <<axis_vars, ab_vars>>

\* limit_change, lines 128-132: the user picks a preset in the range dropdown.
limit_change(r) ==
    /\ phase = "main"
    /\ range_var' = r
    /\ range' = r
    /\ last' = [NoEvent EXCEPT !.op = "limit_change", !.w = "range",
                                !.replot = 1]
    /\ UNCHANGED <<phase, xval, xdata, xprevious, xincrement, xarrows>>
    /\ UNCHANGED <<rule_vars, ab_vars>>

\* increment_xlimits(widget, 0), lines 144-158 and 179-183, reached from
\* enter_pressed (lines 114-125) after the user typed a value and pressed Return.
enter_pressed_xlimit(w, typed) ==
    /\ phase = "main"
    /\ LET old_val == Validated(w, typed, xval, xprevious)
           increment == Increment(old_val, 0)
       IN  /\ range' = RangeAfterEdit(range, range)
           /\ range_var' = RangeAfterEdit(range, range_var)
           /\ xval' = [xval EXCEPT ![w] = old_val]
           /\ xincrement' = [xincrement EXCEPT ![w] = increment]
           /\ xdata' = [xdata EXCEPT ![w] = old_val]
           /\ xprevious' = [xprevious EXCEPT ![w] = old_val]
           /\ last' = [NoEvent EXCEPT !.op = "typed", !.w = w, !.old = old_val,
                                       !.step = increment, !.new = old_val,
                                       !.committed = TRUE,
                                       !.recompute = EnterPressedCalls(w).recompute,
                                       !.replot = EnterPressedCalls(w).replot,
                                       !.mode = ModeKind(range)]
    /\ UNCHANGED <<phase, xarrows>>
    /\ UNCHANGED <<rule_vars, ab_vars>>

\* increment_xlimits(widget, +1 / -1), lines 144-178 and 183, followed by the
\* toolkit's own step of the editor.
arrow_xlimit(w, direction) ==
    /\ phase = "main"
    /\ xarrows < MaxArrows
    /\ xarrows' = xarrows + 1
    /\ LET old_val == xval[w]
           increment == Increment(old_val, direction)
           maximum == SpinTo
           shown == ShownAfterSnap(old_val, direction, increment, maximum)
           new_val == Clamp(Snapped(old_val, direction, increment, maximum),
                            maximum)
           cur == [xval EXCEPT ![w] = shown]
           commit == CanCommit(old_val, direction, new_val, cur)
       IN  /\ range' = RangeAfterEdit(range, range)
           /\ range_var' = RangeAfterEdit(range, range_var)
           /\ xincrement' = [xincrement EXCEPT ![w] = increment]
           /\ xdata' = IF commit THEN [xdata EXCEPT ![w] = new_val] ELSE xdata
           /\ xprevious' = IF commit THEN [xprevious EXCEPT ![w] = new_val]
                                     ELSE xprevious
           /\ xval' = [xval EXCEPT ![w] = SpinboxStep(shown, direction, increment)]
           /\ last' = [NoEvent EXCEPT !.op = "arrow", !.w = w,
                                       !.dir = direction, !.old = old_val,
                                       !.step = increment, !.new = new_val,
                                       !.committed = commit,
                                       !.recompute = XlimitsCalls(direction).recompute,
                                       !.replot = XlimitsCalls(direction).replot,
                                       !.mode = ModeKind(range)]
    /\ UNCHANGED phase
    /\ UNCHANGED <<rule_vars, ab_vars>>

\* enter_pressed, lines 114-118: the Return key in a validated input that is
\* not a bound editor validates it and runs its callback, SNR.update_output.
enter_pressed_entry(w) ==
    /\ phase = "main"
    /\ tw_cond' \in BOOLEAN
    /\ TripsReset
    /\ last' = [NoEvent EXCEPT !.op = "enter_pressed", !.w = w,
                                !.recompute = EnterPressedCalls(w).recompute,
                                !.replot = EnterPressedCalls(w).replot]
    /\ UNCHANGED <<phase, s_var, s_state, n_var, n_values, visible, radio,
                   model_var, t_tw_var, t_tw_previous, t_tw_state, group_var,
                   t_lk_previous>>
    /\ UNCHANGED <<axis_vars, ab_vars>>

AxisNext ==
    \/ Startup
    \/ \E w \in OtherEntries : enter_pressed_entry(w)
    \/ \E r \in RangePresets : limit_change(r)
    \/ \E w \in Bounds, typed \in TypedValues : enter_pressed_xlimit(w, typed)
    \/ \E w \in Bounds, direction \in {-1, 1} : arrow_xlimit(w, direction)

AxisSpec == Init /\ [][AxisNext]_vars

\* The user picks v in the s dropdown; its callback is s_change(), lines 59-95.
select_s(v) ==
    /\ phase = "main"
    /\ s_state = "readonly"
    /\ s_var' = v
    /\ visible' = SChangeVisible(visible, v)
    /\ radio' = SChangeRadio(radio, v, tw_cond)
    /\ n_values' = SChangeValues(v)
    /\ n_var' = SChangeN(n_var, v)
    /\ tw_cond' \in BOOLEAN
    /\ trip' = IF s_var = "0" /\ v # "0"
               THEN [stage |-> 1, n0 |-> n_var,
                     wind0 |-> <<visible["m_w"], visible["v_w"]>>]
               ELSE IF trip.stage = 1 /\ s_var # "0" /\ v = "0"
                    THEN [trip EXCEPT !.stage = 2]
                    ELSE NoTrip
    /\ tw_trip' = IF tw_trip.stage = "back" THEN NoTwTrip ELSE tw_trip
    /\ last' = [NoEvent EXCEPT !.op = "s_change", !.w = "s", !.old = n_var,
                   !.cond = tw_cond,
                   !.rep = IF last.op = "s_change" /\ s_var = v
                              /\ last.cond = tw_cond THEN 1 ELSE 0,
                   !.recompute = SChangeRecompute(n_var, v, TRUE),
                   !.read = SChangeRead([NoRead EXCEPT
                                            !.model = model_var,
                                            !.s_state = s_state,
                                            !.t_tw_state = t_tw_state,
                                            !.t_tw = t_tw_var],
                                        visible, n_var, v)]
    /\ UNCHANGED <<phase, s_state, model_var, t_tw_var, t_tw_previous,
                   group_var, t_lk_previous,
                   t_tw_state>>
    /\ UNCHANGED <<axis_vars, ab_vars>>

\* The user picks v in the n dropdown; its callback is SNR.update_output
\* (line 484).
select_n(v) ==
    /\ phase = "main"
    /\ v \in n_values
    /\ n_var' = v
    /\ tw_cond' \in BOOLEAN
    /\ TripsReset
    /\ last' = [NoEvent EXCEPT !.op = "update_output", !.w = "n",
                                !.recompute = 1]
    /\ UNCHANGED <<phase, s_var, s_state, n_values, visible, radio, model_var,
                   t_tw_var, t_tw_previous, t_tw_state, group_var,
                   t_lk_previous>>
    /\ UNCHANGED <<axis_vars, ab_vars>>

\* The user clicks the radio button m; its callback is model_change(),
\* lines 186-234.
select_model(m) ==
    /\ phase = "main"
    /\ radio[m] = "normal"
    /\ model_var' = m
    /\ visible' = ModelChangeVisible(visible, m)
    /\ s_state' = ModelChangeSState(m)
    /\ t_tw_state' = ModelChangeTtwState(m)
    /\ t_tw_var' = ModelChangeTtwVar(m, t_tw_previous)
    /\ tw_cond' \in BOOLEAN
    /\ trip' = NoTrip
    /\ tw_trip' = IF model_var = "tw" /\ m # "tw"
                  THEN [stage |-> "away", held |-> t_tw_var]
                  ELSE IF tw_trip.stage = "away" /\ m = "tw"
                       THEN [tw_trip EXCEPT !.stage = "back"]
                       ELSE IF tw_trip.stage = "away" THEN tw_trip
                            ELSE NoTwTrip
    /\ last' = [NoEvent EXCEPT !.op = "model_change", !.w = "model",
                   !.mode = model_var,
                   !.rep = IF last.op = "model_change" /\ model_var = m
                           THEN 1 ELSE 0,
                   !.recompute = ModelChangeRecompute(m, TRUE),
                   !.read = ModelChangeRead([NoRead EXCEPT
                                                !.s = s_var, !.n = n_var,
                                                !.n_values = n_values],
                                            visible, m, t_tw_previous)]
    /\ \E ok \in BOOLEAN :
          group_var' = ModelChangeValues(group_var, m, ok, t_lk_previous)
    /\ t_lk_previous' = IF m = "lk" THEN group_var'["t_lk"] ELSE t_lk_previous
    /\ UNCHANGED <<phase, s_var, n_var, n_values, radio, t_tw_previous>>
    /\ UNCHANGED <<axis_vars, ab_vars>>

\* The user types v into the t_tw field (line 515); the field keeps a value
\* its predicate accepts and reverts to its previous value otherwise, then
\* calls SNR.update_output.  The predicate reads SNR.calc: ok is its verdict.
edit_t_tw(v, ok) ==
    /\ phase = "main"
    /\ t_tw_state = "normal"
    /\ t_tw_var' = Validate(v, ok, t_tw_previous)
    /\ t_tw_previous' = Validate(v, ok, t_tw_previous)
    /\ tw_cond' \in BOOLEAN
    /\ TripsReset
    /\ last' = [NoEvent EXCEPT !.op = "update_output", !.w = "t_tw",
                                !.recompute = 1]
    /\ UNCHANGED <<phase, s_var, s_state, n_var, n_values, visible, radio,
                   model_var, t_tw_state, group_var, t_lk_previous>>
    /\ UNCHANGED <<axis_vars, ab_vars>>

\* The user gives the shown input p of the lk or wl group the value
\* GroupTyped[p] (lines 507-514); its callback is SNR.update_output.
edit_group(p) ==
    /\ phase = "main"
    /\ visible[p]
    /\ group_var' = [group_var EXCEPT ![p] = GroupTyped[p]]
    /\ t_lk_previous' = IF p = "t_lk" THEN GroupTyped[p] ELSE t_lk_previous
    /\ tw_cond' \in BOOLEAN
    /\ TripsReset
    /\ last' = [NoEvent EXCEPT !.op = "update_output", !.w = p,
                                !.recompute = 1]
    /\ UNCHANGED <<phase, s_var, s_state, n_var, n_values, visible, radio,
                   model_var, t_tw_var, t_tw_previous, t_tw_state>>
    /\ UNCHANGED <<axis_vars, ab_vars>>

RuleNext ==
    \/ Startup
    \/ \E v \in {"0", "2"} : select_s(v)
    \/ \E v \in NValuesZero \cup NValuesNonzero : select_n(v)
    \/ \E m \in Models : select_model(m)
    \/ \E v \in TtwTyped, ok \in BOOLEAN : edit_t_tw(v, ok)
    \/ \E p \in GroupParams : edit_group(p)

RuleSpec == Init /\ [][RuleNext]_vars

\* abundance_window(abundance_dict, ab_type), lines 279-318.
abundance_window(k) ==
    /\ phase = "main"
    /\ IF SlotTaken(ab_window_open[k])
       THEN /\ last' = [NoEvent EXCEPT !.op = "abundance_window", !.w = k,
                                       !.focus = 1]
            /\ UNCHANGED ab_vars
       ELSE /\ ab_window_open' = [ab_window_open EXCEPT ![k] = TRUE]
            /\ ab_live' = [ab_live EXCEPT ![k] = @ + 1]
            /\ ab_entries' = [ab_entries EXCEPT ![k] = NewEntries(abundance[k])]
            /\ ab_type_var' = [ab_type_var EXCEPT ![k] = ab_default[k]]
            /\ last' = [NoEvent EXCEPT !.op = "abundance_window", !.w = k]
            /\ UNCHANGED <<abundance, ab_default, ab_edits>>
    /\ UNCHANGED <<phase, axis_vars, rule_vars>>

\* The user types v into the entry of element e of the open editor of kind k
\* (lines 295-298).
key_edit_Live(k, e, v) ==
    /\ phase = "main"
    /\ ab_live[k] > 0
    /\ AbCondition(v)
    /\ ab_edits < MaxEdits
    /\ ab_edits' = ab_edits + 1
    /\ ab_entries' = [ab_entries EXCEPT ![k][e] = v]
    /\ abundance' = [abundance EXCEPT ![k][e] = v]
    /\ ab_type_var' = [ab_type_var EXCEPT ![k] = KeyPressed(@)]
    /\ last' = [NoEvent EXCEPT !.op = "key_edit", !.w = k,
                                !.mode = ab_type_var[k]]
    /\ UNCHANGED <<ab_window_open, ab_live, ab_default>>
    /\ UNCHANGED <<phase, axis_vars, rule_vars>>

key_edit(k, e, v) ==
    /\ phase = "main"
    /\ ab_live[k] > 0
    /\ AbCondition(v)
    /\ ab_edits < MaxEdits
    /\ ab_edits' = ab_edits + 1
    /\ ab_entries' = [ab_entries EXCEPT ![k][e] = v]
    /\ ab_type_var' = [ab_type_var EXCEPT ![k] = KeyPressed(@)]
    /\ last' = [NoEvent EXCEPT !.op = "key_edit", !.w = k,
                                !.mode = ab_type_var[k]]
    /\ UNCHANGED <<ab_window_open, ab_live, abundance, ab_default>>
    /\ UNCHANGED <<phase, axis_vars, rule_vars>>

\* The user picks preset t in the dropdown of the open editor of kind k; its
\* callback is reset_ab, lines 321-331.
select_preset_AllOpen(k, t) ==
    /\ phase = "main"
    /\ ab_live[k] > 0
    /\ ab_type_var' = [ab_type_var EXCEPT ![k] = t]
    /\ ab_entries' = [j \in Kinds |-> IF ab_live[j] > 0 THEN ResetAb(t)
                                                        ELSE ab_entries[j]]
    /\ last' = [NoEvent EXCEPT !.op = "reset_ab", !.w = k]
    /\ UNCHANGED <<ab_window_open, ab_live, abundance, ab_default, ab_edits>>
    /\ UNCHANGED <<phase, axis_vars, rule_vars>>

select_preset(k, t) ==
    /\ phase = "main"
    /\ ab_live[k] > 0
    /\ ab_type_var' = [ab_type_var EXCEPT ![k] = t]
    /\ ab_entries' = [ab_entries EXCEPT ![k] = ResetAb(t)]
    /\ last' = [NoEvent EXCEPT !.op = "reset_ab", !.w = k]
    /\ UNCHANGED <<ab_window_open, ab_live, abundance, ab_default, ab_edits>>
    /\ UNCHANGED <<phase, axis_vars, rule_vars>>

\* The Return key pressed in the editor window, lines 297-298 and 315: when
\* the focus is in an element entry the entry's <Key> binding runs before the
\* window's <Return> binding.
ReturnKey(ab_type, in_entry) == IF in_entry THEN KeyPressed(ab_type) ELSE ab_type

\* ab_window_close, lines 334-355, from the Submit button, the Return key
\* or the window manager's close.  The entries hold values their predicate
\* accepts, which validate() at lines 345-346 leaves as they are.
ab_window_close(k, trigger, in_entry) ==
    /\ phase = "main"
    /\ ab_live[k] > 0
    /\ in_entry => trigger = "return"
    /\ LET ab_type == IF trigger = "return"
                      THEN ReturnKey(ab_type_var[k], in_entry)
                      ELSE ab_type_var[k]
       IN  ab_default' = [ab_default EXCEPT ![k] = ab_type]
    /\ ab_window_open' = [ab_window_open EXCEPT ![k] = FALSE]
    /\ abundance' = [abundance EXCEPT ![k] = ab_entries[k]]
    /\ ab_live' = [ab_live EXCEPT ![k] = @ - 1]
    /\ ab_entries' = [ab_entries EXCEPT ![k] = NoEntries]
    /\ ab_type_var' = [ab_type_var EXCEPT ![k] = ""]
    /\ last' = [NoEvent EXCEPT !.op = trigger, !.w = k, !.recompute = 1]
    /\ UNCHANGED ab_edits
    /\ UNCHANGED <<phase, axis_vars, rule_vars>>

AbNext ==
    \/ Startup
    \/ \E k \in Kinds : abundance_window(k)
    \/ \E k \in Kinds, e \in Elements :
          \E v \in AbTyped \cup {ab_entries[k][e]} : key_edit(k, e, v)
    \/ \E k \in Kinds : \E t \in Types(k) : select_preset(k, t)
    \/ \E k \in Kinds, trigger \in Triggers, in_entry \in BOOLEAN :
          ab_window_close(k, trigger, in_entry)

AbSpec == Init /\ [][AbNext]_vars

Next == AxisNext \/ RuleNext \/ AbNext

Spec == Init /\ [][Next]_vars

(***************************************************************************)
(* Properties of the plotted-time range editors, checked under AxisSpec.   *)
(***************************************************************************)
IsEdit(e) == e.op \in {"typed", "arrow"}

PowersOfTen == {10 ^ k : k \in 0..8}

\* The largest power of ten that is at most v, for v >= 1.
LargestPowerOfTen(v) ==
    CHOOSE p \in PowersOfTen :
        p <= v /\ \A q \in PowersOfTen : q <= v => q <= p

\* The step the specification gives for a value.
StepOf(v) ==
    IF v >= 1 /\ LargestPowerOfTen(v) >= 10 THEN LargestPowerOfTen(v) ELSE 10

\* A decrement of a value that equals its step, the step being above ten.
DecrementAtBoundary(e) == e.dir = -1 /\ e.old = StepOf(e.old) /\ e.old > 10

\* C1: after any sequence of typed and arrow edits of the two editors,
\* starting from xmin = 0 and xmax = 900, the stored minimum is strictly
\* below the stored maximum.  The code refutes this: the editors' predicates
\* and the test of lines 174-175 reject equality only.
C1_MinBelowMax == xdata["xmin"] < xdata["xmax"]

\* Minimum below maximum, in the editors and in the stored range.
Ordered == xval["xmin"] < xval["xmax"] /\ xdata["xmin"] < xdata["xmax"]

\* C2 as stated: with the minimum below the maximum, an arrow edit rejected
\* because its new value meets the paired bound leaves the stored value, the
\* range mode and the step as they were and requests no recompute.  The code
\* refutes this: lines 145-147 and 158 run before the test.
C2_RejectedLeavesState ==
    [][\A w \in Bounds :
          (Ordered /\ last'.op = "arrow" /\ last'.w = w /\ ~last'.committed
              /\ last'.new = xval[Other(w)])
          => /\ xdata' = xdata
             /\ range' = range
             /\ range_var' = range_var
             /\ xincrement' = xincrement
             /\ last'.recompute = 0]_vars

\* C2 as amended: an arrow edit whose new value equals what the paired
\* editor shows leaves both stored bounds and both previous values as they
\* were and requests no recompute; the range mode is "Custom" afterwards and
\* the editor's step is the one computed for its value.
C2_RejectedKeepsValue ==
    [][\A w \in Bounds :
          (last'.op = "arrow" /\ last'.w = w /\ last'.new = xval[Other(w)])
          => /\ xdata' = xdata
             /\ xprevious' = xprevious
             /\ last'.recompute = 0
             /\ range' = "Custom"
             /\ range_var' = "Custom"
             /\ xincrement'[w] = last'.step]_vars

C2_Rejected ==
    /\ last.op = "arrow"
    /\ ~last.committed
    /\ last.new = xval[Other(last.w)]
    /\ last.step # 10
    /\ range = "Custom"

\* C3: outside the decrement-at-boundary case, the step increment_xlimits
\* computes and configures for a value v is the largest power of ten <= v
\* when that power is at least ten, and ten otherwise, also for v <= 0.
C3_StepIsPowerOfTen ==
    (IsEdit(last) /\ ~DecrementAtBoundary(last))
        => /\ last.step = StepOf(last.old)
           /\ xincrement[last.w] = last.step

C3_StepOfExamples ==
    /\ IsEdit(last)
    /\ last.old = 347
    /\ last.step = 100
    /\ xincrement[last.w] = 100

\* C4: a decrement of a value that equals its step, the step being above ten,
\* uses the step divided by ten: the new value is the old one minus the
\* reduced step, and it is the value stored when the edit commits.  No other
\* edit reduces the step.
C4_DecrementReducesStep ==
    IsEdit(last) =>
        IF DecrementAtBoundary(last)
        THEN /\ last.step = last.old \div 10
             /\ xincrement[last.w] = last.step
             /\ last.new = last.old - last.step
             /\ last.committed => xdata[last.w] = last.new
        ELSE last.step = StepOf(last.old)

C4_Decrement100 ==
    /\ last.op = "arrow"
    /\ last.dir = -1
    /\ last.old = 100
    /\ last.step = 10
    /\ last.committed
    /\ xdata[last.w] = 90

(***************************************************************************)
(* Properties of s_change and model_change, checked under RuleSpec.        *)
(***************************************************************************)

\* C5: after a round trip of s from zero to nonzero and back through
\* s_change, the two wind parameters are visible exactly as before it, and n
\* is its value from before the trip if that was one of 0, 1, 2, 7 and is 0
\* otherwise.
C5_RoundTripRestores ==
    trip.stage = 2 =>
        /\ <<visible["m_w"], visible["v_w"]>> = trip.wind0
        /\ trip.n0 \in {0, 1, 2, 7} => n_var = trip.n0
        /\ trip.n0 \notin {0, 1, 2, 7} => n_var = 0

C5_RoundTripFrom4 ==
    /\ trip.stage = 2
    /\ trip.n0 = 4
    /\ n_var = 0
    /\ s_var = "0"
    /\ ~visible["m_w"]
    /\ ~visible["v_w"]

\* C6: n is always one of the values offered for the current s, the ten
\* values for s zero and the four for s nonzero; s_change resets to 0 a value
\* that is not offered any more and leaves any other value alone.
C6_NInDomain ==
    /\ n_var \in n_values
    /\ n_values = IF s_var = "0" THEN {0, 2, 4, 6, 7, 8, 9, 10, 12, 14}
                                 ELSE {0, 1, 2, 7}
    /\ last.op = "s_change"
          => n_var = IF last.old \in n_values THEN last.old ELSE 0

C6_ResetOfOne ==
    /\ last.op = "s_change"
    /\ s_var = "0"
    /\ last.old = 1
    /\ n_var = 0

\* C7: while another variant than tw is selected the t_tw field is disabled,
\* hidden and shows "N/A"; when tw is selected again the field is enabled,
\* shown and holds the value it held before it was hidden.
C7_TtwRestored ==
    /\ (phase = "main" /\ model_var # "tw")
          => (t_tw_state = "disabled" /\ ~visible["t_tw"] /\ t_tw_var = "N/A")
    /\ tw_trip.stage = "away" => model_var # "tw"
    /\ tw_trip.stage = "back"
          => /\ model_var = "tw"
             /\ t_tw_state = "normal"
             /\ visible["t_tw"]
             /\ t_tw_var = tw_trip.held

C7_BackToTyped ==
    /\ tw_trip.stage = "back"
    /\ tw_trip.held = "5e5"
    /\ t_tw_var = "5e5"

(***************************************************************************)
(* Properties of the abundance editors, checked under AbSpec.              *)
(***************************************************************************)

\* C8: at most one editor window of each kind is live, and it is the one in
\* the kind's slot; abundance_window called while the kind's editor is open
\* gives the focus to it and changes nothing else.
C8_SingleEditor ==
    /\ [](\A k \in Kinds :
            ab_live[k] <= 1 /\ (ab_window_open[k] <=> ab_live[k] = 1))
    /\ [][\A k \in Kinds :
            (last'.op = "abundance_window" /\ last'.w = k /\ ab_live[k] >= 1)
            => (last'.focus = 1 /\ UNCHANGED ab_vars)]_vars

C8_SecondCall ==
    /\ last.op = "abundance_window"
    /\ last.focus = 1
    /\ ab_live[last.w] = 1
    /\ ab_window_open[last.w]

\* C9: after a preset is selected in an open editor every element entry
\* holds the preset's value and the dropdown shows the preset; after any
\* edit of an element entry the dropdown shows "Custom".
C9_PresetThenCustom ==
    \A k \in Kinds :
        /\ (last.op = "reset_ab" /\ last.w = k)
              => /\ ab_type_var[k] \in Types(k)
                 /\ \A e \in Elements :
                       ab_entries[k][e] = ABUNDANCE[ab_type_var[k]][e]
        /\ (last.op = "key_edit" /\ last.w = k) => ab_type_var[k] = "Custom"

C9_EditAfterPreset ==
    /\ last.op = "key_edit"
    /\ last.w = "ISM"
    /\ last.mode = "Solar"
    /\ ab_type_var["ISM"] = "Custom"
    /\ \E e \in Elements : ab_entries["ISM"][e] = ABUNDANCE["Solar"][e]

C11_CommitSameForTriggers ==
    [][\A k \in Kinds :
         (last'.op \in Triggers /\ last'.w = k)
         => /\ abundance'[k] = ab_entries[k]
            /\ ab_default'[k] = ab_type_var[k]
            /\ ~ab_window_open'[k]
            /\ ab_live'[k] = 0]_vars

\* C12: editing an element entry or choosing a preset in an open editor
\* changes neither the backing table nor the recorded default preset of any
\* kind; only ab_window_close changes them.
C12_EditsLeaveTable ==
    [][(last'.op \in {"key_edit", "reset_ab"} \/ last'.op \notin Triggers)
          => UNCHANGED <<abundance, ab_default>>]_vars

C12_WorkingCopyDiffers ==
    /\ last.op \in {"key_edit", "reset_ab"}
    /\ ab_window_open["ISM"]
    /\ ab_type_var["ISM"] = "Solar"
    /\ ab_default["ISM"] = "LMC"
    /\ ab_entries["ISM"] = ResetAb("Solar")
    /\ abundance["ISM"] = ResetAb("LMC")
    /\ ab_window_open["Ejecta"]
    /\ ab_type_var["Ejecta"] = "Custom"
    /\ ab_default["Ejecta"] = "Type Ia"
    /\ \E e \in Elements : ab_entries["Ejecta"][e] = 8123
    /\ abundance["Ejecta"] = ResetAb("Type Ia")

\* C13: a typed or arrow edit of a bound leaves the range mode "Custom" in
\* the stored range and in the selector, whatever named preset it was; the
\* mode leaves "Custom" for a named preset only through limit_change.
C13_EditSetsCustom ==
    [][/\ IsEdit(last') => (range' = "Custom" /\ range_var' = "Custom")
       /\ ((range = "Custom" /\ range' # "Custom")
             \/ (range_var = "Custom" /\ range_var' # "Custom"))
          => (last'.op = "limit_change" /\ range' \in RangePresets
                                        /\ range_var' = range')]_vars

C13_EditFromPreset ==
    /\ last.op = "arrow"
    /\ ~last.committed
    /\ last.mode = "preset"
    /\ range = "Custom"
    /\ range_var = "Custom"

\* C14: once the rules have run, the s input is selectable exactly when the
\* model variant is cf and is disabled for lk, tw and wl; model_change
\* changes neither the value of s nor whether s is shown.
C14_SEditableIffStandard ==
    /\ [](phase = "main" =>
             /\ (s_state = "readonly") <=> (model_var = "cf")
             /\ model_var \in {"lk", "tw", "wl"} => s_state = "disabled")
    /\ [][last'.op = "model_change"
             => (s_var' = s_var /\ visible'["s"] = visible["s"])]_vars

C14_BackToStandard ==
    /\ last.op = "model_change"
    /\ last.mode = "lk"
    /\ model_var = "cf"
    /\ s_state = "readonly"
    /\ visible["s"]

\* The three groups of variant-specific parameters and those of them whose
\* parameters are all shown.
Groups == {{"t_lk", "gamma_0", "eps"}, {"t_tw"}, {"c_tau"}}
ShownGroups == {g \in Groups : \A p \in g : visible[p]}
PartlyShown == {g \in Groups : (\E p \in g : visible[p]) /\ g \notin ShownGroups}

\* C15, as stated: in every state after a model_change exactly one of the
\* three groups is visible, for each of the four variants.
C15_ExactlyOneGroup ==
    phase = "main" => (Cardinality(ShownGroups) = 1 /\ PartlyShown = {})

\* C15, amended: after a model_change the group of the selected variant is
\* visible and no other for lk, tw and wl, and no group is visible for cf.
C15_GroupOfVariant ==
    phase = "main" =>
        /\ PartlyShown = {}
        /\ model_var = "cf" => ShownGroups = {}
        /\ model_var = "lk" => ShownGroups = {{"t_lk", "gamma_0", "eps"}}
        /\ model_var = "tw" => ShownGroups = {{"t_tw"}}
        /\ model_var = "wl" => ShownGroups = {{"c_tau"}}

C15_StandardShowsNone ==
    /\ last.op = "model_change"
    /\ last.mode = "tw"
    /\ model_var = "cf"
    /\ ShownGroups = {}

\* What SNR.update_output reads when it is called in the current state.
CurrentRead ==
    [s |-> s_var, n |-> n_var, n_values |-> n_values, model |-> model_var,
     s_state |-> s_state, t_tw_state |-> t_tw_state, t_tw |-> t_tw_var,
     visible |-> {p \in DOMAIN visible : visible[p]}]

\* C16: s_change and model_change called by the user (update = True) each
\* request exactly one recompute, which reads the inputs as the handler
\* leaves them; the start-up sequence, which calls both with update = False,
\* requests one recompute in all.
C16_OneRecompute ==
    /\ last.op \in {"s_change", "model_change"}
          => (last.recompute = 1 /\ last.read = CurrentRead)
    /\ last.op = "startup" => last.recompute <= 1

C16_RecomputeAfterReset ==
    /\ last.op = "s_change"
    /\ last.recompute = 1
    /\ last.old = 4
    /\ s_var = "2"
    /\ last.read.n = 0
    /\ "m_w" \in last.read.visible

\* The state of the parameters the two rule sets act on.
RuleTargets ==
    <<visible, radio, s_state, n_values, n_var, t_tw_state, t_tw_var, s_var,
      model_var, group_var>>

\* C17: s_change run a second time in a row with the same s and the same
\* transition-time condition, or model_change run a second time in a row
\* with the same variant, leaves the visibility, enabled state, domain and
\* value of every parameter as the first run left them.
C17_RulesIdempotent ==
    [][(last'.op \in {"s_change", "model_change"} /\ last'.rep = 1)
          => UNCHANGED RuleTargets]_vars

C17_SecondRun ==
    /\ last.op = "s_change"
    /\ last.rep = 1
    /\ s_var = "2"
    /\ visible["m_w"]
    /\ radio["lk"] = "disabled"

\* C18: the recompute that s_change requests reads n after the forced reset,
\* so the pair (s, n) it reads has n among the values allowed for s, and the
\* reset adds no recompute to the one of the handler.
C18_ResetBeforeRecompute ==
    last.op = "s_change" =>
        /\ last.read.s = s_var
        /\ last.read.n \in (IF last.read.s = "0"
                               THEN {0, 2, 4, 6, 7, 8, 9, 10, 12, 14}
                               ELSE {0, 1, 2, 7})
        /\ last.read.n \in last.read.n_values
        /\ last.recompute = 1

C18_ReadAfterReset ==
    /\ last.op = "s_change"
    /\ last.old = 1
    /\ last.read.s = "0"
    /\ last.read.n = 0
    /\ last.recompute = 1

\* C19: an edit of a bound, typed or by arrow, stored or not, requests a
\* replot and no recompute; the Return key in another validated input runs
\* that input's callback, which requests a recompute.
C19_EditOnlyReplots ==
    /\ IsEdit(last) => (last.recompute = 0 /\ last.replot = 1)
    /\ last.op = "enter_pressed"
          => (last.w \notin Bounds /\ last.recompute = 1 /\ last.replot = 0)

C19_TypedReplots ==
    /\ last.op = "typed"
    /\ last.w = "xmax"
    /\ last.new = 347
    /\ xdata["xmax"] = 347
    /\ last.recompute = 0
    /\ last.replot = 1

\* C20: the stored bounds stay within 0 .. upper bound of the editors under
\* arrow actions: a new value above the upper bound is clamped to it, and a
\* decrement from 0 is not stored.
C20_BoundsInRange ==
    /\ \A w \in Bounds : SpinFrom <= xdata[w] /\ xdata[w] <= SpinTo
    /\ last.op = "arrow"
          => /\ last.new <= SpinTo
             /\ (last.old = 0 /\ last.dir = -1) => ~last.committed
             /\ last.committed => (last.new >= 0 /\ xdata[last.w] = last.new)

C20_ClampedAtMaximum ==
    /\ last.op = "arrow"
    /\ last.dir = 1
    /\ last.old = SpinTo
    /\ last.new = SpinTo
    /\ xdata[last.w] = SpinTo

\* The raw new value of an arrow action: the old value plus or minus the step.
RawOf(e) == e.old + e.dir * e.step

\* C21: for an arrow action whose raw new value is not a multiple of the
\* step, the new value is the nearest multiple of the step below the raw
\* value for an increment and above it for a decrement; every stored arrow
\* result is a multiple of the step; an increment at the upper bound is not
\* snapped and its result is the upper bound.
C21_SnapToMultiple ==
    last.op = "arrow" =>
        /\ (RawOf(last) % last.step # 0 /\ ~(last.old = SpinTo /\ last.dir = 1))
              => /\ last.new % last.step = 0
                 /\ last.dir = 1 => (last.new <= RawOf(last)
                                      /\ RawOf(last) - last.new < last.step)
                 /\ last.dir = -1 => (last.new >= RawOf(last)
                                       /\ last.new - RawOf(last) < last.step)
        /\ last.committed => last.new % last.step = 0
        /\ (last.old = SpinTo /\ last.dir = 1) => last.new = SpinTo

C21_SnappedDown ==
    /\ last.op = "arrow"
    /\ last.dir = 1
    /\ last.old = 347
    /\ last.step = 100
    /\ last.new = 400
    /\ last.committed
    /\ xdata[last.w] = 400

\* C22: once s_change has run, m_w and v_w are visible exactly when s is
\* nonzero, the lk and wl variants are selectable exactly when s is zero,
\* and with s nonzero none of lk, wl and tw is selectable.
C22_WindAndVariants ==
    phase = "main" =>
        /\ visible["m_w"] <=> (s_var # "0")
        /\ visible["v_w"] <=> (s_var # "0")
        /\ (radio["lk"] = "normal") <=> (s_var = "0")
        /\ (radio["wl"] = "normal") <=> (s_var = "0")
        /\ s_var # "0" => \A m \in {"lk", "wl", "tw"} : radio[m] = "disabled"

C22_NonzeroContracts ==
    /\ last.op = "s_change"
    /\ last.rep = 0
    /\ s_var = "2"
    /\ visible["m_w"]
    /\ visible["v_w"]
    /\ \A m \in {"lk", "wl", "tw"} : radio[m] = "disabled"
    /\ radio["cf"] = "normal"

\* C23: after an s_change with s zero, the one of start-up included, the tw
\* variant is selectable only if 0.1 * t_c <= t_pds held when it ran; when
\* the condition did not hold the variant is not selectable.
C23_TwOnlyWhenCondition ==
    (last.op \in {"s_change", "startup"} /\ s_var = "0" /\ ~last.cond)
        => radio["tw"] # "normal"

\* C24: a model_change that hides t_lk, gamma_0, eps or c_tau leaves the
\* value of the hidden parameter as it was; the value it overwrites when it
\* hides a parameter is that of t_tw, which it sets to "N/A".
C24_HideKeepsValues ==
    [][last'.op = "model_change" =>
         /\ \A p \in GroupParams :
               (visible[p] /\ ~visible'[p]) => group_var'[p] = group_var[p]
         /\ \A p \in GroupParams \ {"t_lk"} : group_var'[p] = group_var[p]
         /\ (visible["t_tw"] /\ ~visible'["t_tw"]) => t_tw_var' = "N/A"]_vars

C24_HiddenWithValues ==
    /\ last.op = "model_change"
    /\ last.mode = "lk"
    /\ model_var = "wl"
    /\ ~visible["t_lk"] /\ ~visible["gamma_0"] /\ ~visible["eps"]
    /\ group_var["t_lk"] = "6000"
    /\ group_var["gamma_0"] = "1.4"
    /\ group_var["eps"] = "0.5"
    /\ group_var["c_tau"] = "4"

\* C25: in every state reachable from start-up a nonzero s implies that the
\* model variant is cf: another variant disables the s input, and a nonzero
\* s disables the buttons of the other variants.
C25_DiscriminantsLock ==
    /\ s_var # "0" => model_var = "cf"
    /\ (phase = "main" /\ model_var # "cf") => s_state = "disabled"
    /\ (phase = "main" /\ s_var # "0")
          => \A m \in Models \ {"cf"} : radio[m] = "disabled"

C25_StandardKeptAtNonzero ==
    /\ last.op = "model_change"
    /\ s_var = "2"
    /\ model_var = "cf"
    /\ s_state = "readonly"

\* The slot, the window count, the working copy, the dropdown, the backing
\* table and the recorded default of kind j.
AbState(j) ==
    <<ab_window_open[j], ab_live[j], ab_entries[j], ab_type_var[j],
      abundance[j], ab_default[j]>>

\* C26: opening, editing, selecting a preset in or committing the editor of
\* one kind leaves the slot, working copy, backing table and recorded default
\* of the other kind unchanged, whether or not the other editor is open.
C26_KindsIndependent ==
    [][\A k \in Kinds :
         (last'.w = k /\ last'.op \in {"abundance_window", "key_edit",
                                        "reset_ab"} \cup Triggers)
         => \A j \in Kinds \ {k} : AbState(j)' = AbState(j)]_vars

C26_CommitBesideOpenEditor ==
    /\ last.op \in Triggers
    /\ last.w = "ISM"
    /\ ~ab_window_open["ISM"]
    /\ ab_default["ISM"] = "Solar"
    /\ abundance["ISM"] = ResetAb("Solar")
    /\ ab_window_open["Ejecta"]
    /\ ab_type_var["Ejecta"] = "CC"
    /\ ab_entries["Ejecta"] = ResetAb("CC")
    /\ ab_default["Ejecta"] = "Type Ia"
    /\ abundance["Ejecta"] = ResetAb("Type Ia")

====
